---- MODULE Spec2Model ----
(***************************************************************************)
(* Blog API (containerized-app/app/main.py): a FastAPI service whose       *)
(* handlers issue SQL statements against one SQLite table, posts.          *)
(*                                                                         *)
(* The table is a set of rows; sqlite_sequence (AUTOINCREMENT) and the     *)
(* store's clock (CURRENT_TIMESTAMP, one-second resolution) are state.     *)
(* Timestamps are the number of the second: the "YYYY-MM-DD HH:MM:SS" text *)
(* SQLite stores is fixed-width, so its text order is the numeric order.   *)
(* The clock never runs backwards.                                         *)
(*                                                                         *)
(* Spec     : every handler runs to completion (one process, handlers are  *)
(*            async functions without an await).                           *)
(* SpecConc : several worker processes share the database file; a handler  *)
(*            is a sequence of SQL statements that interleave with the     *)
(*            statements of the other workers.                             *)
(***************************************************************************)
EXTENDS Integers, Sequences, FiniteSets, TLC

VARIABLES
    posts,      \* committed rows of table posts
    seq,        \* sqlite_sequence.seq for posts: largest rowid ever assigned
    clock,      \* CURRENT_TIMESTAMP of the store, in seconds
    resp,       \* Spec: the request served last and its response
    pre,        \* Spec: the store as it was when that request arrived
    seedRuns,   \* Spec: how many times init_db inserted sample_posts
    assigned,   \* Spec: every id an INSERT has given to a row
    nops,       \* Spec: the part of MaxOps used by the requests served so far
    pc,         \* SpecConc: per worker, the statement it executes next
    wreq,       \* SpecConc: per worker, the request it is serving
    wres,       \* SpecConc: per worker, the response of its last request
    txn,        \* SpecConc: the open write transaction (owner 0: none)
    started     \* SpecConc: number of requests accepted so far

vars == <<posts, seq, clock, resp, pre, seedRuns, assigned, nops, pc, wreq, wres, txn, started>>
seqVars == <<resp, pre, seedRuns, assigned, nops>>
concVars == <<pc, wreq, wres, txn, started>>

\* ---------------------------------------------------------------- bounds
MaxSeq == 6
MaxClock == 1
MaxOps == 3
MaxRequests == 2

\* ------------------------------------------------------- HTTP status codes
HTTP_200_OK == 200
HTTP_201_CREATED == 201
HTTP_400_BAD_REQUEST == 400
HTTP_404_NOT_FOUND == 404
HTTP_500_INTERNAL_SERVER_ERROR == 500
\* FastAPI's answer to a body that fails the request model's validation
HTTP_422_UNPROCESSABLE == 422

\* ------------------------------------------------------------ request models
\* Optional[str]: None, or a string
None == <<>>
Some(v) == <<v>>
Text == {"", "x"}
OptText == {None} \cup {Some(t) : t \in Text}

\* JSON bodies a client can send: each key absent (or null), or a string.
\* The bodies tried: no key, one key, or all three; the empty string as a title.
Bodies ==
    {b \in [title : OptText, content : OptText, author : OptText] :
        /\ b.content # Some("") /\ b.author # Some("")
        /\ Cardinality({f \in {"title", "content", "author"} : b[f] # None}) # 2}

\* PostCreate: title, content, author are required str fields
PostCreate(body) ==
    /\ body.title # None
    /\ body.content # None
    /\ body.author # None

\* A truthiness test: the empty string counts as not supplied
Truthy(v) == v # None /\ v[1] # ""

\* update_post's "is not None" test of one attribute of PostUpdate
Provided(v) == v # None

\* update_fields: the columns update_post puts in its SET clause
update_fields(body) ==
    {f \in {"title", "content", "author"} : Provided(body[f])}

\* --------------------------------------------------------------- the table
sample_posts ==
    << [title |-> "Welcome to the Blog API",
        content |-> "This is your first blog post created automatically!",
        author |-> "System"],
       [title |-> "Docker is Awesome",
        content |-> "Learning to containerize applications with Docker.",
        author |-> "DevOps Learner"],
       [title |-> "AWS Deployment",
        content |-> "Taking our containerized app to the cloud!",
        author |-> "Cloud Engineer"] >>

Ids(tbl) == {r.id : r \in tbl}

MaxRowid(tbl) ==
    IF tbl = {} THEN 0 ELSE CHOOSE i \in Ids(tbl) : \A j \in Ids(tbl) : j <= i

\* A table without AUTOINCREMENT: one more than the largest rowid in the table
ReusedRowid(tbl, sq) == MaxRowid(tbl) + 1

\* id INTEGER PRIMARY KEY AUTOINCREMENT: one more than the largest rowid ever
NextRowid(tbl, sq) == sq + 1

\* INSERT INTO posts (title, content, author) VALUES (?, ?, ?)
\* created_at and updated_at take DEFAULT CURRENT_TIMESTAMP, one value per statement
InsertRow(tbl, sq, now, t, c, a) ==
    [id |-> NextRowid(tbl, sq), title |-> t, content |-> c, author |-> a,
     created_at |-> now, updated_at |-> now]

\* SELECT ... FROM posts WHERE id = ?  followed by fetchone()
fetchone(tbl, id) ==
    IF \E r \in tbl : r.id = id
    THEN Some(CHOOSE r \in tbl : r.id = id)
    ELSE None

\* A full replacement: a column that was not supplied is blanked
ReplacedColumn(r, body, f) == IF Provided(body[f]) THEN body[f][1] ELSE ""

\* The value of column f after UPDATE posts SET <update_fields> WHERE id = ?
SetColumn(r, body, f) == IF Provided(body[f]) THEN body[f][1] ELSE r[f]

\* A SET clause without updated_at
Untouched(r, now) == r

\* The wrong timestamp column in the SET clause
TouchCreated(r, now) == [r EXCEPT !.created_at = now]

\* update_fields.append("updated_at = CURRENT_TIMESTAMP")
TouchUpdated(r, now) == [r EXCEPT !.updated_at = now]

UpdatedRow(r, body, now) ==
    TouchUpdated([r EXCEPT !.title = SetColumn(r, body, "title"),
                           !.content = SetColumn(r, body, "content"),
                           !.author = SetColumn(r, body, "author")], now)

\* UPDATE posts SET ... WHERE id = ?   (no row matches: nothing changes)
UpdateRows(tbl, id, body, now) ==
    {IF r.id = id THEN UpdatedRow(r, body, now) ELSE r : r \in tbl}

\* DELETE FROM posts WHERE id = ?
DeleteRows(tbl, id) == {r \in tbl : r.id # id}

\* cursor.rowcount after the DELETE
rowcount(tbl, id) == Cardinality({r \in tbl : r.id = id})

\* ORDER BY created_at DESC: SQLite scans posts in rowid order and its sorter
\* keeps rows with equal keys in scan order
First(tbl) ==
    CHOOSE r \in tbl : \A s \in tbl :
        \/ s.created_at < r.created_at
        \/ (s.created_at = r.created_at /\ r.id <= s.id)

RECURSIVE OrderByCreatedDesc(_)
OrderByCreatedDesc(tbl) ==
    IF tbl = {} THEN <<>>
    ELSE <<First(tbl)>> \o OrderByCreatedDesc(tbl \ {First(tbl)})

\* -------------------------------------------------------------- init_db
\* Seeding only a table that never held a row
NeverUsed(tbl, sq) == sq = 0

\* SELECT COUNT(*) FROM posts ... == 0
TableEmpty(tbl, sq) == Cardinality(tbl) = 0

\* executemany: three INSERT statements, taken to run within one clock second
Seeded(sq, now) ==
    LET r1 == InsertRow({}, sq, now, sample_posts[1].title,
                        sample_posts[1].content, sample_posts[1].author)
        r2 == InsertRow({r1}, r1.id, now, sample_posts[2].title,
                        sample_posts[2].content, sample_posts[2].author)
        r3 == InsertRow({r1, r2}, r2.id, now, sample_posts[3].title,
                        sample_posts[3].content, sample_posts[3].author)
    IN  {r1, r2, r3}

\* a request and its response: row is the Post returned, rows the listing returned
NoRequest ==
    [op |-> "none", id |-> 0, body |-> None, status |-> 0, at |-> 0,
     row |-> None, rows |-> <<>>]

\* worker processes sharing the database file
Workers == 1..2

Init ==
    /\ posts = Seeded(0, 0)
    /\ seq = 3
    /\ clock = 0
    /\ resp = [NoRequest EXCEPT !.op = "startup"]
    /\ pre = [posts |-> {}, seq |-> 0, assigned |-> {}]
    /\ seedRuns = 1
    /\ assigned = {1, 2, 3}
    /\ nops = 0
    /\ pc = [w \in Workers |-> "idle"]
    /\ wreq = [w \in Workers |-> NoRequest]
    /\ wres = [w \in Workers |-> NoRequest]
    /\ txn = [owner |-> 0, posts |-> {}]
    /\ started = 0

Tick ==
    /\ clock < MaxClock
    /\ clock' = clock + 1
    /\ UNCHANGED <<posts, seq, seqVars, concVars>>

\* ------------------------------------------------ Spec: handlers run whole
Stored == [posts |-> posts, seq |-> seq, assigned |-> assigned]

\* a request that leaves the store as it is
Answer(r) ==
    /\ resp' = [r EXCEPT !.at = clock]
    /\ pre' = Stored
    /\ UNCHANGED <<posts, seq, clock, seedRuns, assigned, nops, concVars>>

\* a request that commits a new table. MaxOps bounds the exploration: a
\* request that writes a row opens more successors than one that deletes a
\* row, and is charged n = 2 where a delete is charged n = 1
Commit(r, tbl, sq, n) ==
    /\ nops + n <= MaxOps
    /\ posts' = tbl
    /\ seq' = sq
    /\ resp' = [r EXCEPT !.at = clock]
    /\ pre' = Stored
    /\ nops' = nops + n
    /\ UNCHANGED <<clock, concVars>>

\* init_db() at the start of a process, on the database file of the last one
init_db ==
    LET r == [NoRequest EXCEPT !.op = "startup"] IN
    IF TableEmpty(posts, seq)
    THEN /\ seq + 3 <= MaxSeq
         /\ posts' = Seeded(seq, clock)
         /\ seq' = seq + 3
         /\ resp' = [r EXCEPT !.at = clock]
         /\ pre' = Stored
         /\ seedRuns' = seedRuns + 1
         /\ assigned' = assigned \cup Ids(Seeded(seq, clock))
         /\ UNCHANGED <<clock, nops, concVars>>
    ELSE Answer(r)

\* GET /posts
get_posts ==
    Answer([NoRequest EXCEPT !.op = "list", !.status = HTTP_200_OK,
                             !.rows = OrderByCreatedDesc(posts)])

\* GET /posts/{post_id}
get_post(post_id) ==
    LET r == [NoRequest EXCEPT !.op = "get", !.id = post_id]
        row == fetchone(posts, post_id)
    IN  IF row = None
        THEN Answer([r EXCEPT !.status = HTTP_404_NOT_FOUND])
        ELSE Answer([r EXCEPT !.status = HTTP_200_OK, !.row = row])

\* POST /posts
create_post(body) ==
    LET r == [NoRequest EXCEPT !.op = "create", !.body = body] IN
    IF ~PostCreate(body)
    THEN Answer([r EXCEPT !.status = HTTP_422_UNPROCESSABLE])
    ELSE LET new == InsertRow(posts, seq, clock, body.title[1],
                              body.content[1], body.author[1])
             tbl == posts \cup {new}
             row == fetchone(tbl, new.id)
         IN  /\ new.id <= MaxSeq
             /\ new.id \notin Ids(posts)
             /\ Commit([r EXCEPT !.status = HTTP_201_CREATED, !.id = new.id,
                                 !.row = row], tbl,
                       IF new.id > seq THEN new.id ELSE seq, 2)
             /\ assigned' = assigned \cup {new.id}
             /\ UNCHANGED seedRuns

\* The 400 test made before the existence test
update_status_fields_first(tbl, post_id, body) ==
    IF update_fields(body) = {} THEN HTTP_400_BAD_REQUEST
    ELSE IF fetchone(tbl, post_id) = None THEN HTTP_404_NOT_FOUND
    ELSE HTTP_200_OK

\* update_post's tests before its UPDATE statement, in the order it makes them
update_status(tbl, post_id, body) ==
    IF fetchone(tbl, post_id) = None THEN HTTP_404_NOT_FOUND
    ELSE IF update_fields(body) = {} THEN HTTP_400_BAD_REQUEST
    ELSE HTTP_200_OK

\* PUT /posts/{post_id}
update_post(post_id, body) ==
    LET r == [NoRequest EXCEPT !.op = "update", !.id = post_id, !.body = body]
        st == update_status(posts, post_id, body)
        tbl == UpdateRows(posts, post_id, body, clock)
        row == fetchone(tbl, post_id)
    IN  IF st # HTTP_200_OK
        THEN Answer([r EXCEPT !.status = st])
        ELSE /\ Commit([r EXCEPT !.status =
                                     IF row = None
                                     THEN HTTP_500_INTERNAL_SERVER_ERROR
                                     ELSE HTTP_200_OK,
                                 !.row = row], tbl, seq, 2)
             /\ UNCHANGED <<seedRuns, assigned>>

\* DELETE /posts/{post_id}
delete_post(post_id) ==
    LET r == [NoRequest EXCEPT !.op = "delete", !.id = post_id] IN
    IF rowcount(posts, post_id) = 0
    THEN Answer([r EXCEPT !.status = HTTP_404_NOT_FOUND])
    ELSE /\ Commit([r EXCEPT !.status = HTTP_200_OK],
                   DeleteRows(posts, post_id), seq, 1)
         /\ UNCHANGED <<seedRuns, assigned>>

\* path parameters a client can send: 0, every id assigned so far (stored or
\* deleted) and the smallest id never assigned
PostIds == 0..(seq + 1)

Next ==
    \/ Tick
    \/ init_db
    \/ get_posts
    \/ \E i \in PostIds : get_post(i)
    \/ \E b \in Bodies : create_post(b)
    \/ \E i \in PostIds, b \in Bodies : update_post(i, b)
    \/ \E i \in PostIds : delete_post(i)

Spec == Init /\ [][Next]_vars

\* ------------------------------ SpecConc: statements of workers interleave
NoTxn == [owner |-> 0, posts |-> {}]

\* the handler returns (or raises): the connection is closed by get_db
Respond(w, r) ==
    /\ wres' = [wres EXCEPT ![w] = [r EXCEPT !.at = clock]]
    /\ pc' = [pc EXCEPT ![w] = "idle"]

\* a worker takes PUT /posts/{post_id} off the socket
accept_update(w, post_id, body) ==
    /\ pc[w] = "idle"
    /\ started < MaxRequests
    /\ started' = started + 1
    /\ wreq' = [wreq EXCEPT ![w] = [NoRequest EXCEPT !.op = "update",
                                     !.id = post_id, !.body = body]]
    /\ pc' = [pc EXCEPT ![w] = "update_select"]
    /\ UNCHANGED <<posts, seq, clock, seqVars, wres, txn>>

\* a worker takes DELETE /posts/{post_id} off the socket
accept_delete(w, post_id) ==
    /\ pc[w] = "idle"
    /\ started < MaxRequests
    /\ started' = started + 1
    /\ wreq' = [wreq EXCEPT ![w] = [NoRequest EXCEPT !.op = "delete",
                                     !.id = post_id]]
    /\ pc' = [pc EXCEPT ![w] = "delete_execute"]
    /\ UNCHANGED <<posts, seq, clock, seqVars, wres, txn>>

\* update_post: SELECT id FROM posts WHERE id = ?, then the SET clause is built
update_select(w) ==
    /\ pc[w] = "update_select"
    /\ LET st == update_status(posts, wreq[w].id, wreq[w].body) IN
        IF st # HTTP_200_OK
        THEN Respond(w, [wreq[w] EXCEPT !.status = st])
        ELSE /\ pc' = [pc EXCEPT ![w] = "update_execute"]
             /\ UNCHANGED wres
    /\ UNCHANGED <<posts, seq, clock, seqVars, wreq, txn, started>>

\* update_post: cursor.execute(query, update_values). The statement opens a
\* write transaction; it waits while another connection holds one
update_execute(w) ==
    /\ pc[w] = "update_execute"
    /\ txn.owner = 0
    /\ txn' = [owner |-> w,
               posts |-> UpdateRows(posts, wreq[w].id, wreq[w].body, clock)]
    /\ pc' = [pc EXCEPT ![w] = "update_commit"]
    /\ UNCHANGED <<posts, seq, clock, seqVars, wreq, wres, started>>

\* update_post: conn.commit()
update_commit(w) ==
    /\ pc[w] = "update_commit"
    /\ txn.owner = w
    /\ posts' = txn.posts
    /\ txn' = NoTxn
    /\ pc' = [pc EXCEPT ![w] = "update_reread"]
    /\ UNCHANGED <<seq, clock, seqVars, wreq, wres, started>>

\* update_post: the SELECT after the commit, and Post(id=row["id"], ...);
\* row is None when no row matches, and subscripting it raises TypeError,
\* which the handler turns into a 500
update_reread(w) ==
    /\ pc[w] = "update_reread"
    /\ LET row == fetchone(posts, wreq[w].id) IN
        Respond(w, [wreq[w] EXCEPT !.status =
                                      IF row = None
                                      THEN HTTP_500_INTERNAL_SERVER_ERROR
                                      ELSE HTTP_200_OK,
                                   !.row = row])
    /\ UNCHANGED <<posts, seq, clock, seqVars, wreq, txn, started>>

\* delete_post: DELETE FROM posts WHERE id = ? and the rowcount test; the 404
\* leaves the handler without a commit
delete_execute(w) ==
    /\ pc[w] = "delete_execute"
    /\ txn.owner = 0
    /\ IF rowcount(posts, wreq[w].id) = 0
       THEN /\ Respond(w, [wreq[w] EXCEPT !.status = HTTP_404_NOT_FOUND])
            /\ UNCHANGED txn
       ELSE /\ txn' = [owner |-> w, posts |-> DeleteRows(posts, wreq[w].id)]
            /\ pc' = [pc EXCEPT ![w] = "delete_commit"]
            /\ UNCHANGED wres
    /\ UNCHANGED <<posts, seq, clock, seqVars, wreq, started>>

\* delete_post: conn.commit() and the confirmation message
delete_commit(w) ==
    /\ pc[w] = "delete_commit"
    /\ txn.owner = w
    /\ posts' = txn.posts
    /\ txn' = NoTxn
    /\ Respond(w, [wreq[w] EXCEPT !.status = HTTP_200_OK])
    /\ UNCHANGED <<seq, clock, seqVars, wreq, started>>

NextConc ==
    \/ Tick
    \/ \E w \in Workers, i \in PostIds, b \in Bodies : accept_update(w, i, b)
    \/ \E w \in Workers, i \in PostIds : accept_delete(w, i)
    \/ \E w \in Workers : update_select(w)
    \/ \E w \in Workers : update_execute(w)
    \/ \E w \in Workers : update_commit(w)
    \/ \E w \in Workers : update_reread(w)
    \/ \E w \in Workers : delete_execute(w)
    \/ \E w \in Workers : delete_commit(w)

SpecConc == Init /\ [][NextConc]_vars

\* =================================================================== claims
Columns == {"title", "content", "author"}

\* what update_post was asked to change
Supplied == {f \in Columns : resp.body[f] # None}

\* the row of the request's id before the request, and after it
Before == CHOOSE r \in pre.posts : r.id = resp.id
After == CHOOSE r \in posts : r.id = resp.id

UpdateOfStored == resp.op = "update" /\ resp.id \in Ids(pre.posts)

\* C1: an update of a stored post with at least one field returns and stores
\* the post with the supplied fields at their new values and with every other
\* field of title/content/author, id and created_at as before; no other
\* stored post changes.
C1_UpdateFrame ==
    (UpdateOfStored /\ Supplied # {}) =>
        /\ resp.status = HTTP_200_OK
        /\ resp.row = Some(After)
        /\ \A f \in Columns :
              After[f] = IF f \in Supplied THEN resp.body[f][1] ELSE Before[f]
        /\ After.created_at = Before.created_at
        /\ posts \ {After} = pre.posts \ {Before}

\* a partial update of one of several stored posts has been served
C1_Witness ==
    /\ UpdateOfStored
    /\ resp.status = HTTP_200_OK
    /\ Supplied = {"content"}
    /\ Before.content # After.content
    /\ Cardinality(posts) > 1

\* C2 (as claimed): a successful update leaves updated_at strictly greater
\* than it was, also within the clock tick of the insert or of an update.
C2_StrictlyIncreases ==
    (UpdateOfStored /\ resp.status = HTTP_200_OK) =>
        After.updated_at > Before.updated_at

\* C2 (amended): a successful update sets updated_at to the store's current
\* second: never less than it was, and greater exactly when the clock has
\* advanced since the value it replaces.
C2_UpdatedAtIsNow ==
    (UpdateOfStored /\ resp.status = HTTP_200_OK) =>
        /\ After.updated_at = resp.at
        /\ After.updated_at >= Before.updated_at
        /\ (After.updated_at > Before.updated_at) <=> (resp.at > Before.updated_at)

\* an update served within the second of the row's last write
C2_Witness ==
    /\ UpdateOfStored
    /\ resp.status = HTTP_200_OK
    /\ After.updated_at = Before.updated_at

\* C3: get, update (with any field set, the empty one too) and delete of an
\* id that is not stored answer 404 and leave the stored posts as they are.
C3_MissingIdNotFound ==
    (resp.op \in {"get", "update", "delete"} /\ resp.id \notin Ids(pre.posts)) =>
        /\ resp.status = HTTP_404_NOT_FOUND
        /\ posts = pre.posts

\* an update with the empty field set of an id that was assigned and deleted
C3_Witness ==
    /\ resp.op = "update"
    /\ resp.id \in pre.assigned \ Ids(pre.posts)
    /\ Supplied = {}
    /\ resp.status = HTTP_404_NOT_FOUND

\* C4: an update of a stored post with no field answers 400 and leaves the
\* stored posts, updated_at included, as they are; with at least one field,
\* an empty string too, it does not answer 400 and stores the values given.
C4_EmptyUpdate ==
    UpdateOfStored =>
        IF Supplied = {}
        THEN resp.status = HTTP_400_BAD_REQUEST /\ posts = pre.posts
        ELSE /\ resp.status # HTTP_400_BAD_REQUEST
             /\ \A f \in Supplied : After[f] = resp.body[f][1]

\* an update with no field of a stored post has been refused
C4_Witness ==
    /\ UpdateOfStored
    /\ Supplied = {}
    /\ resp.status = HTTP_400_BAD_REQUEST

\* the listing is in created_at order, newest first
Descending(rows) ==
    \A i \in 1..Len(rows), j \in 1..Len(rows) :
        i < j => rows[i].created_at >= rows[j].created_at

\* C5 (the part that holds): a listing returns every stored post, newest
\* created_at first, and leaves the store as it is.
C5_SortedAndStable ==
    resp.op = "list" =>
        /\ Descending(resp.rows)
        /\ {resp.rows[i] : i \in 1..Len(resp.rows)} = posts
        /\ Len(resp.rows) = Cardinality(posts)
        /\ posts = pre.posts

\* C5: a listing returns all stored posts sorted by created_at descending
\* without changing the store, and after a successful create the new post is
\* the first element of the next listing, also when other posts share its
\* created_at.
C5_ListingNewestFirst ==
    /\ C5_SortedAndStable
    /\ (resp.op = "create" /\ resp.status = HTTP_201_CREATED) =>
          Head(OrderByCreatedDesc(posts)).id = resp.id

\* C6: a create returns a post with created_at = updated_at and a positive id
\* that no row was ever given before, deleted rows included.
C6_FreshId ==
    (resp.op = "create" /\ resp.status = HTTP_201_CREATED) =>
        /\ resp.row # None
        /\ resp.row[1].created_at = resp.row[1].updated_at
        /\ resp.row[1].id > 0
        /\ resp.row[1].id \notin pre.assigned
        /\ resp.row[1] \in posts

\* a create served after the post with the highest id was deleted
C6_Witness ==
    /\ resp.op = "create"
    /\ resp.status = HTTP_201_CREATED
    /\ pre.posts # {}
    /\ \E i \in pre.assigned : \A r \in pre.posts : r.id < i

\* C7: a create whose title, content or author is absent or the empty string
\* is refused as an invalid argument and stores no row.
C7_CreateRefusesEmpty ==
    (resp.op = "create" /\ \E f \in Columns : resp.body[f] \in {None, Some("")}) =>
        /\ resp.status \in {HTTP_400_BAD_REQUEST, HTTP_422_UNPROCESSABLE}
        /\ posts = pre.posts

\* C8: an update with at least one field that runs concurrently with a delete
\* of the same id answers 200 with the post it stored, or 404; never a 500.
C8_UpdateLinearized ==
    \A w \in Workers :
        (wres[w].op = "update"
            /\ \E f \in Columns : wres[w].body[f] # None) =>
            /\ wres[w].status \in {HTTP_200_OK, HTTP_404_NOT_FOUND}
            /\ (wres[w].status = HTTP_200_OK) <=> (wres[w].row # None)

\* C9 (as claimed): sample_posts is inserted once in the life of a store,
\* whatever is created, updated, deleted or restarted afterwards.
C9_SeededOnce == seedRuns <= 1

\* the three rows of sample_posts, under the ids following sq
SeedRows(tbl, sq) ==
    /\ Ids(tbl) = (sq + 1)..(sq + 3)
    /\ \A k \in 1..3 : \E r \in tbl :
          /\ r.id = sq + k
          /\ r.title = sample_posts[k].title
          /\ r.content = sample_posts[k].content
          /\ r.author = sample_posts[k].author

\* C9 (amended): init_db inserts sample_posts whenever it finds the table
\* empty: a fresh store starts with exactly the three seed posts, a start on
\* a table that holds a post inserts nothing, and a start after every post
\* was deleted inserts the three seed rows again, under new ids.
C9_SeededWhenEmpty ==
    resp.op = "startup" =>
        IF pre.posts = {}
        THEN SeedRows(posts, pre.seq) /\ Cardinality(posts) = 3
        ELSE posts = pre.posts

\* a restart after every post was deleted has seeded the table again
C9_Witness ==
    /\ resp.op = "startup"
    /\ pre.posts = {}
    /\ pre.seq > 0
    /\ seedRuns = 2

\* the text a column can hold (NOT NULL: any string)
ColumnText == Text \cup {sample_posts[k][f] : k \in 1..3, f \in Columns}

\* C10: every stored post has id, title, content, author, created_at and
\* updated_at populated, and updated_at >= created_at.
C10_RowsWhole ==
    \A r \in posts :
        /\ DOMAIN r = Columns \cup {"id", "created_at", "updated_at"}
        /\ r.id \in 1..seq
        /\ \A f \in Columns : r[f] \in ColumnText
        /\ r.created_at \in 0..clock
        /\ r.updated_at \in 0..clock
        /\ r.updated_at >= r.created_at

\* a post updated after the second of its creation is stored beside a post
\* that never was updated
C10_Witness ==
    /\ \E r \in posts : r.updated_at > r.created_at
    /\ \E r \in posts : r.updated_at = r.created_at
====
